---- MODULE Spec2Model ----
(***************************************************************************)
(* Model of src/streamlit_cropper/frontend/src/StreamlitCropper.tsx: the   *)
(* crop rectangle's constraint engine (keepRectInsideCanvas) and the React *)
(* component that owns the rectangle, rebinds its listeners and emits its  *)
(* bounding box.                                                           *)
(*                                                                         *)
(* JavaScript numbers are modelled as exact rationals [n |-> _, d |-> _]   *)
(* in lowest terms with d > 0, so canvasWidth / baseWidth is computed as   *)
(* a quotient and not rounded (IEEE rounding is not modelled).             *)
(* The drawing library (fabric) is outside the repository; its calls are   *)
(* modelled by what the source relies on: set() stores a field, on/off     *)
(* add and remove listeners, getScaledWidth() is width * scaleX and        *)
(* getBoundingRect() is {left, top, width * scaleX, height * scaleY}       *)
(* (the stroke's contribution is left out, strokeWidth is not modelled).   *)
(***************************************************************************)
EXTENDS Integers, Sequences, FiniteSets, TLC

\* ------------------------------------------------------------------ bounds
\* The engine is checked on every canvas of 1..MaxCanvas by 1..MaxCanvas, every base
\* size of 0..MaxBase, every position of -1..MaxPos and every scale factor n/1 and
\* n/2 with n in 1..MaxScale. Gestures of the widget draw positions from -1..MaxPos
\* and scale factors from 1..MaxScale.
MaxCanvas == 3
MaxBase == 2
MaxPos == 1
MaxScale == 2

\* ------------------------------------------------------- JavaScript numbers
Abs(x) == IF x < 0 THEN -x ELSE x

RECURSIVE GCD(_, _)
GCD(a, b) == IF b = 0 THEN a ELSE GCD(b, a % b)

\* the number n / d, d > 0, in lowest terms
Q(n, d) ==
    LET g == GCD(Abs(n), d)
    IN  [n |-> n \div g, d |-> d \div g]

Num(i) == [n |-> i, d |-> 1]

Lt(a, b) == a.n * b.d < b.n * a.d

Gt(a, b) == Lt(b, a)

Sub(a, b) == Q(a.n * b.d - b.n * a.d, a.d * b.d)

Mul(a, b) == Q(a.n * b.n, a.d * b.d)

\* a / b for b > 0 (the source divides only behind baseWidth > 0 && baseHeight > 0)
Div(a, b) == Q(a.n * b.d, a.d * b.n)

MathMin(a, b) == IF Lt(b, a) THEN b ELSE a

MathMax(a, b) == IF Lt(a, b) THEN b ELSE a

\* ------------------------------------------------------------ value domains
CanvasSizes == [width : 1..MaxCanvas, height : 1..MaxCanvas]

Positions == (-1)..MaxPos

Bases == 0..MaxBase

\* fabric's set() never stores a scale of 0 or below (it constrains 0 to a small
\* positive value and turns a negative scale into a flip), so scale factors are > 0
GestureScales == 1..MaxScale

Scales == {Q(n, d) : n \in 1..MaxScale, d \in 1..2}

\* every rectangle the engine is checked on
Rects ==
    [left : {Num(i) : i \in Positions}, top : {Num(i) : i \in Positions},
     width : {Num(i) : i \in Bases}, height : {Num(i) : i \in Bases},
     scaleX : Scales, scaleY : Scales]

\* the surfaces the widget is created on
HostCanvasSizes == [width : {1, 2}, height : {1, 2}]

\* interface PythonArgs as the host sends it (a width that may be 0, the degenerate
\* rectangle, and a height that may exceed the surface's): without the canvas size (fixed when the
\* surface is created, see fabricCanvas), without imageData (read once, by the init
\* effect, see dataUri), and without boxColor and strokeWidth, which are written to
\* the rectangle's stroke and read by nothing in the component
PythonArgs ==
    [rectTop : {0, 1}, rectLeft : {0, 1},
     rectWidth : {0, 1}, rectHeight : {1, 2},
     realtimeUpdate : BOOLEAN, lockAspect : BOOLEAN]

Handles == {"tl", "tr", "bl", "br", "mt", "mb", "ml", "mr", "mtr"}

\* ------------------------------------------------------- constraint engine
clamp(value, min, max) ==
    IF Lt(value, min) THEN min
    ELSE IF Gt(value, max) THEN max
    ELSE value

getScaledWidth(rect) == Mul(rect.width, rect.scaleX)

getScaledHeight(rect) == Mul(rect.height, rect.scaleY)

\* lines 30-31: rect.scaleX || 1
currentScale(scale) == IF scale = Num(0) THEN Num(1) ELSE scale

\* line 34
maxScaleX(rect, fabricCanvas) == Div(Num(fabricCanvas.width), rect.width)

\* line 35
maxScaleY(rect, fabricCanvas) == Div(Num(fabricCanvas.height), rect.height)

\* the locked branch sets each factor to its own axis's bound, not to the smaller one
clampScaleUniform_PerAxisBounds(rect, fabricCanvas) ==
    LET maxUniformScale == MathMin(maxScaleX(rect, fabricCanvas),
                                   maxScaleY(rect, fabricCanvas))
    IN  IF Gt(currentScale(rect.scaleX), maxUniformScale)
           \/ Gt(currentScale(rect.scaleY), maxUniformScale)
        THEN [rect EXCEPT !.scaleX = maxScaleX(rect, fabricCanvas),
                          !.scaleY = maxScaleY(rect, fabricCanvas)]
        ELSE rect

\* lines 38-44: the aspect-locked branch
clampScaleUniform(rect, fabricCanvas) ==
    LET maxUniformScale == MathMin(maxScaleX(rect, fabricCanvas),
                                   maxScaleY(rect, fabricCanvas))
    IN  IF Gt(currentScale(rect.scaleX), maxUniformScale)
           \/ Gt(currentScale(rect.scaleY), maxUniformScale)
        THEN [rect EXCEPT !.scaleX = maxUniformScale, !.scaleY = maxUniformScale]
        ELSE rect

\* the scaleY clamp of lines 49-51 is missing
clampScalePerAxis_XOnly(rect, fabricCanvas) ==
    IF Gt(currentScale(rect.scaleX), maxScaleX(rect, fabricCanvas))
    THEN [rect EXCEPT !.scaleX = maxScaleX(rect, fabricCanvas)]
    ELSE rect

\* lines 46-51: the free branch
clampScalePerAxis(rect, fabricCanvas) ==
    LET r1 == IF Gt(currentScale(rect.scaleX), maxScaleX(rect, fabricCanvas))
              THEN [rect EXCEPT !.scaleX = maxScaleX(rect, fabricCanvas)]
              ELSE rect
    IN  IF Gt(currentScale(rect.scaleY), maxScaleY(rect, fabricCanvas))
        THEN [r1 EXCEPT !.scaleY = maxScaleY(rect, fabricCanvas)]
        ELSE r1

\* lockAspect is ignored: the uniform clamp is applied in both modes
clampScale_AlwaysUniform(rect, fabricCanvas, lockAspect) ==
    IF Gt(rect.width, Num(0)) /\ Gt(rect.height, Num(0))
    THEN clampScaleUniform(rect, fabricCanvas)
    ELSE rect

\* the guard of line 33 tests baseWidth only: with baseHeight = 0 the bound
\* canvasHeight / 0 is Infinity (n / 0 here), above every scale factor
clampScale_WidthOnlyGuard(rect, fabricCanvas, lockAspect) ==
    IF Gt(rect.width, Num(0))
    THEN IF lockAspect
         THEN clampScaleUniform(rect, fabricCanvas)
         ELSE clampScalePerAxis(rect, fabricCanvas)
    ELSE rect

\* lines 28-53: the scale step
clampScale(rect, fabricCanvas, lockAspect) ==
    LET baseWidth == rect.width
        baseHeight == rect.height
    IN  IF Gt(baseWidth, Num(0)) /\ Gt(baseHeight, Num(0))
        THEN IF lockAspect
             THEN clampScaleUniform(rect, fabricCanvas)
             ELSE clampScalePerAxis(rect, fabricCanvas)
        ELSE rect

\* the Math.max(..., 0) of lines 57-58 is missing: the upper limit can be negative
clampPosition_NegativeMax(rect, fabricCanvas) ==
    LET maxLeft == Sub(Num(fabricCanvas.width), getScaledWidth(rect))
        maxTop == Sub(Num(fabricCanvas.height), getScaledHeight(rect))
    IN  [rect EXCEPT !.left = clamp(rect.left, Num(0), maxLeft),
                     !.top = clamp(rect.top, Num(0), maxTop)]

\* lines 55-65: the position step
clampPosition(rect, fabricCanvas) ==
    LET canvasWidth == Num(fabricCanvas.width)
        canvasHeight == Num(fabricCanvas.height)
        scaledWidth == getScaledWidth(rect)
        scaledHeight == getScaledHeight(rect)
        maxLeft == MathMax(Sub(canvasWidth, scaledWidth), Num(0))
        maxTop == MathMax(Sub(canvasHeight, scaledHeight), Num(0))
        nextLeft == clamp(rect.left, Num(0), maxLeft)
        nextTop == clamp(rect.top, Num(0), maxTop)
    IN  [rect EXCEPT !.left = nextLeft, !.top = nextTop]

\* returns as soon as the scale step has changed the rectangle
keepRectInsideCanvas_ReturnsAfterScale(rect, fabricCanvas, lockAspect) ==
    IF clampScale(rect, fabricCanvas, lockAspect) # rect
    THEN clampScale(rect, fabricCanvas, lockAspect)
    ELSE clampPosition(rect, fabricCanvas)

\* lines 25-68
keepRectInsideCanvas(rect, fabricCanvas, lockAspect) ==
    clampPosition(clampScale(rect, fabricCanvas, lockAspect), fabricCanvas)

\* ------------------------------------------------------------------- state
VARIABLES
    args,          \* props.args of the last committed render
    fabricCanvas,  \* the surface's width and height (fixed when it is created)
    surface,       \* the fabric Canvas: "none", "live" or "disposed"
    canvas,        \* the useState value: "null" or "set"
    rectRef,       \* rectRef.current: <<>> (null) or <<the Rect>>
    controls,      \* the Rect's setControlsVisibility map
    listeners,     \* registered handlers per event
    lastEvent,     \* what the last turn of the event loop handled
    engineRuns,    \* lockAspect of each keepRectInsideCanvas call of the last turn
    sent,          \* the values passed to Streamlit.setComponentValue in the last turn
    dataUri,       \* props.args.imageData || "" of the first render (read by the init effect)
    imageLoad,     \* the FabricImage.fromURL promise: "none", "pending" or "resolved"
    backgroundImage, \* the surface's backgroundImage: "none" or "img"
    constructed    \* how many Canvas and Rect objects have been constructed

\* the background image: what the init effect reads and writes for it
image == <<dataUri, imageLoad, backgroundImage>>

vars == <<args, fabricCanvas, surface, canvas, rectRef, controls, listeners,
          lastEvent, engineRuns, sent, image, constructed>>

\* the lifecycle states: Ready from the commit that sees the canvas state set (the
\* one that binds the listeners), Disposed after the removal
Ready == surface = "live" /\ canvas = "set"

Disposed == surface = "disposed"

Uninitialized == ~Ready /\ ~Disposed

\* ------------------------------------------------------- library behaviour
RECURSIVE off(_, _)
\* rect.off(name, handler): removes that handler
off(handlers, handler) ==
    IF handlers = <<>> THEN <<>>
    ELSE IF Head(handlers) = handler THEN Tail(handlers)
    ELSE <<Head(handlers)>> \o off(Tail(handlers), handler)

getBoundingRect(rect) ==
    [left |-> rect.left, top |-> rect.top,
     width |-> getScaledWidth(rect), height |-> getScaledHeight(rect)]

\* ------------------------------------------------------ component helpers
\* lines 99-109: new Rect({...}); scaleX and scaleY start at fabric's default 1
newRect(a) ==
    [left |-> Num(a.rectLeft), top |-> Num(a.rectTop),
     width |-> Num(a.rectWidth), height |-> Num(a.rectHeight),
     scaleX |-> Num(1), scaleY |-> Num(1)]

\* lines 113-123
initControlsVisibility(lockAspect) ==
    [h \in Handles |->
        IF h \in {"mt", "mb", "ml", "mr"} THEN ~lockAspect
        ELSE IF h = "mtr" THEN FALSE
        ELSE TRUE]

\* the edge handles follow lockAspect instead of its negation
updateControlsVisibility_EdgesWhenLocked(lockAspect) ==
    [h \in Handles |->
        IF h \in {"mt", "mb", "ml", "mr"} THEN lockAspect
        ELSE IF h = "mtr" THEN FALSE
        ELSE TRUE]

\* lines 152-162
updateControlsVisibility(lockAspect) ==
    [h \in Handles |->
        IF h \in {"mt", "mb", "ml", "mr"} THEN ~lockAspect
        ELSE IF h = "mtr" THEN FALSE
        ELSE TRUE]

\* the update replaces the rectangle's state by a fresh one: scaleX = scaleY = 1
reconfigure_ResetsScale(rect, a) ==
    [left |-> Num(a.rectLeft), top |-> Num(a.rectTop),
     width |-> Num(a.rectWidth), height |-> Num(a.rectHeight),
     scaleX |-> Num(1), scaleY |-> Num(1)]

\* lines 142-150: rect.set({left, top, width, height, ...})
reconfigure(rect, a) ==
    [rect EXCEPT !.left = Num(a.rectLeft), !.top = Num(a.rectTop),
                 !.width = Num(a.rectWidth), !.height = Num(a.rectHeight)]

\* lines 177-178: rect.on("moving", enforceBounds); rect.on("scaling", enforceBounds);
\* a listener is the enforceBounds closure, identified by the lockAspect it captured
bindGestureListeners(ls, lockAspect) ==
    [ls EXCEPT !.moving = Append(@, lockAspect),
               !.scaling = Append(@, lockAspect)]

\* the cleanup removes nothing (rect.off with a closure that was never registered,
\* as when enforceBounds is re-created before the cleanup reads it)
unbindGestureListeners_RemovesNothing(ls, lockAspect) == ls

\* the cleanup forgets rect.off("scaling", enforceBounds)
unbindGestureListeners_MovingOnly(ls, lockAspect) ==
    [ls EXCEPT !.moving = off(@, lockAspect)]

\* lines 182-185: the cleanup of the gesture-listener effect
unbindGestureListeners(ls, lockAspect) ==
    [ls EXCEPT !.moving = off(@, lockAspect),
               !.scaling = off(@, lockAspect)]

\* handleEvent is registered on both events whatever realtimeUpdate is
bindEmissionListener_BothEvents(ls, realtimeUpdate) ==
    [ls EXCEPT !.objectModified = @ + 1, !.mouseDblclick = @ + 1]

\* lines 204-205 and 210-211: canvas.on(..., handleEvent)
bindEmissionListener(ls, realtimeUpdate) ==
    IF realtimeUpdate
    THEN [ls EXCEPT !.objectModified = @ + 1]
    ELSE [ls EXCEPT !.mouseDblclick = @ + 1]

\* the cleanup removes nothing (canvas.off(name, handler) with a handler that was
\* never registered)
unbindEmissionListener_RemovesNothing(ls, realtimeUpdate) == ls

\* the cleanup of each mode removes the other mode's event
unbindEmissionListener_OtherEvent(ls, realtimeUpdate) ==
    IF realtimeUpdate
    THEN [ls EXCEPT !.mouseDblclick = 0]
    ELSE [ls EXCEPT !.objectModified = 0]

\* lines 206-208 and 212-214: canvas.off(name) removes every handler of that event
unbindEmissionListener(ls, realtimeUpdate) ==
    IF realtimeUpdate
    THEN [ls EXCEPT !.objectModified = 0]
    ELSE [ls EXCEPT !.mouseDblclick = 0]

\* lines 87 and 99: new Canvas(...), new Rect(...)
initConstructs(c) == [Canvas |-> c.Canvas + 1, Rect |-> c.Rect + 1]

\* the reconfigure effect builds a new Rect for the new configuration
reconfigureConstructs_NewRect(c) == [c EXCEPT !.Rect = @ + 1]

\* lines 139-150: the reconfigure effect takes the canvas state and rectRef.current
\* and constructs nothing
reconfigureConstructs(c) == c

RECURSIVE enforceBounds(_, _, _)
\* lines 173-175, for every registered closure in turn
enforceBounds(rect, fabricCanvas_, closures) ==
    IF closures = <<>> THEN rect
    ELSE enforceBounds(keepRectInsideCanvas(rect, fabricCanvas_, Head(closures)),
                       fabricCanvas_, Tail(closures))

\* lines 198-202: one outbound value per registered handleEvent
handleEvent(rect, n) ==
    [i \in 1..n |-> [coords |-> getBoundingRect(rect)]]

\* ----------------------------------------------------------------- actions
\* a widget without a background image (imageData empty); LoadInit has the image
Init ==
    /\ args \in PythonArgs
    /\ fabricCanvas \in HostCanvasSizes
    /\ surface = "none"
    /\ canvas = "null"
    /\ rectRef = <<>>
    /\ controls = [h \in Handles |-> TRUE]
    /\ listeners = [moving |-> <<>>, scaling |-> <<>>,
                    objectModified |-> 0, mouseDblclick |-> 0]
    /\ lastEvent = "none"
    /\ engineRuns = <<>>
    /\ sent = <<>>
    /\ dataUri = ""
    /\ imageLoad = "none"
    /\ backgroundImage = "none"
    /\ constructed = [Canvas |-> 0, Rect |-> 0]

\* lines 82-135 (the first commit): the init effect; the three other effects return
\* at once because the canvas state is still null
Mount ==
    /\ surface = "none"
    /\ surface' = "live"
    /\ controls' = initControlsVisibility(args.lockAspect)
    /\ rectRef' = <<keepRectInsideCanvas(newRect(args), fabricCanvas, args.lockAspect)>>
    /\ engineRuns' = <<args.lockAspect>>
    /\ lastEvent' = "mount"
    /\ sent' = <<>>
    /\ imageLoad' = IF dataUri # "" THEN "pending" ELSE "none"
    /\ constructed' = initConstructs(constructed)
    /\ UNCHANGED <<args, fabricCanvas, canvas, listeners, dataUri, backgroundImage>>

\* lines 138-216: a commit after mount (the one setCanvas schedules, or one with new
\* props.args): cleanups of the effects that re-run, then the effects in order
Render(newArgs) ==
    /\ surface = "live"
    /\ LET first == canvas = "null"
           rebind == first \/ newArgs.lockAspect # args.lockAspect
           l1 == IF ~first /\ rebind
                 THEN unbindGestureListeners(listeners, args.lockAspect)
                 ELSE listeners
           l2 == IF ~first THEN unbindEmissionListener(l1, args.realtimeUpdate) ELSE l1
           r1 == reconfigure(rectRef[1], newArgs)
           r2 == keepRectInsideCanvas(r1, fabricCanvas, newArgs.lockAspect)
           l3 == IF rebind THEN bindGestureListeners(l2, newArgs.lockAspect) ELSE l2
           r3 == IF rebind THEN enforceBounds(r2, fabricCanvas, <<newArgs.lockAspect>>)
                 ELSE r2
           l4 == bindEmissionListener(l3, newArgs.realtimeUpdate)
       IN  /\ rectRef' = <<r3>>
           /\ listeners' = l4
           /\ engineRuns' = IF rebind THEN <<newArgs.lockAspect, newArgs.lockAspect>>
                            ELSE <<newArgs.lockAspect>>
    /\ controls' = updateControlsVisibility(newArgs.lockAspect)
    /\ args' = newArgs
    /\ canvas' = "set"
    /\ lastEvent' = "render"
    /\ sent' = <<>>
    /\ constructed' = reconfigureConstructs(constructed)
    /\ UNCHANGED <<fabricCanvas, surface, image>>

\* a "moving" event of a Ready widget: fabric has put the rectangle at the pointer,
\* then calls the registered listeners in the same turn
Moving(left, top) ==
    /\ Ready
    /\ rectRef' = <<enforceBounds([rectRef[1] EXCEPT !.left = Num(left), !.top = Num(top)],
                                  fabricCanvas, listeners.moving)>>
    /\ engineRuns' = listeners.moving
    /\ lastEvent' = "moving"
    /\ sent' = <<>>
    /\ UNCHANGED <<args, fabricCanvas, surface, canvas, controls, listeners,
                   image, constructed>>

\* a "scaling" event of a Ready widget: fabric has set the scale factors, then calls
\* the listeners in the same turn. Any pair of factors can arrive: the surface's
\* uniformScaling is set once, from the first lockAspect (line 89), and the shift key
\* inverts it
Scaling(scaleX, scaleY) ==
    /\ Ready
    /\ rectRef' = <<enforceBounds([rectRef[1] EXCEPT !.scaleX = Num(scaleX),
                                                     !.scaleY = Num(scaleY)],
                                  fabricCanvas, listeners.scaling)>>
    /\ engineRuns' = listeners.scaling
    /\ lastEvent' = "scaling"
    /\ sent' = <<>>
    /\ UNCHANGED <<args, fabricCanvas, surface, canvas, controls, listeners,
                   image, constructed>>

\* "object:modified": a drag/resize gesture ends
ObjectModified ==
    /\ Ready
    /\ sent' = handleEvent(rectRef[1], listeners.objectModified)
    /\ lastEvent' = "object:modified"
    /\ engineRuns' = <<>>
    /\ UNCHANGED <<args, fabricCanvas, surface, canvas, rectRef, controls, listeners,
                   image, constructed>>

\* "mouse:dblclick" anywhere on the surface
MouseDblclick ==
    /\ Ready
    /\ sent' = handleEvent(rectRef[1], listeners.mouseDblclick)
    /\ lastEvent' = "mouse:dblclick"
    /\ engineRuns' = <<>>
    /\ UNCHANGED <<args, fabricCanvas, surface, canvas, rectRef, controls, listeners,
                   image, constructed>>

\* the component is removed: the cleanups of lines 131-133, 182-185 and 206-214
Unmount ==
    /\ surface = "live"
    /\ surface' = "disposed"
    /\ listeners' = IF canvas = "set"
                    THEN unbindEmissionListener(
                             unbindGestureListeners(listeners, args.lockAspect),
                             args.realtimeUpdate)
                    ELSE listeners
    /\ lastEvent' = "unmount"
    /\ engineRuns' = <<>>
    /\ sent' = <<>>
    /\ UNCHANGED <<args, fabricCanvas, canvas, rectRef, controls, image, constructed>>

\* an event that arrives after the removal goes to the handlers still registered
StaleEvent(name) ==
    /\ Disposed
    /\ LET closures == IF name = "moving" THEN listeners.moving
                       ELSE IF name = "scaling" THEN listeners.scaling
                       ELSE <<>>
           handlers == IF name = "object:modified" THEN listeners.objectModified
                       ELSE IF name = "mouse:dblclick" THEN listeners.mouseDblclick
                       ELSE 0
       IN  /\ rectRef' = <<enforceBounds(rectRef[1], fabricCanvas, closures)>>
           /\ engineRuns' = closures
           /\ sent' = handleEvent(rectRef'[1], handlers)
    /\ lastEvent' = name
    /\ UNCHANGED <<args, fabricCanvas, surface, canvas, controls, listeners,
                   image, constructed>>

Events == {"moving", "scaling", "object:modified", "mouse:dblclick"}

Next ==
    \/ Mount
    \/ \E newArgs \in PythonArgs : Render(newArgs)
    \/ \E left \in Positions, top \in Positions : Moving(left, top)
    \/ \E scaleX \in GestureScales, scaleY \in GestureScales : Scaling(scaleX, scaleY)
    \/ ObjectModified
    \/ MouseDblclick
    \/ Unmount
    \/ \E name \in Events : StaleEvent(name)

Spec == Init /\ [][Next]_vars

\* ------------------------------------------------------- the engine alone
\* a Ready widget whose rectangle a gesture or a configuration has just set to any
\* value, before the engine runs
EngineInit ==
    /\ args \in {a \in PythonArgs : a.rectTop = 0 /\ a.rectLeft = 0 /\ a.rectWidth = 0
                                     /\ a.rectHeight = 1 /\ ~a.realtimeUpdate}
    /\ fabricCanvas \in CanvasSizes
    /\ surface = "live"
    /\ canvas = "set"
    /\ rectRef \in {<<r>> : r \in Rects}
    /\ controls = updateControlsVisibility(args.lockAspect)
    /\ listeners = [moving |-> <<args.lockAspect>>, scaling |-> <<args.lockAspect>>,
                    objectModified |-> 0, mouseDblclick |-> 1]
    /\ lastEvent = "none"
    /\ engineRuns = <<>>
    /\ sent = <<>>
    /\ dataUri = ""
    /\ imageLoad = "none"
    /\ backgroundImage = "none"
    /\ constructed = [Canvas |-> 1, Rect |-> 1]

\* lines 173-175 and 180: one call of enforceBounds
EnforceBounds ==
    /\ rectRef' = <<enforceBounds(rectRef[1], fabricCanvas, listeners.moving)>>
    /\ engineRuns' = listeners.moving
    /\ lastEvent' = "enforceBounds"
    /\ UNCHANGED <<args, fabricCanvas, surface, canvas, controls, listeners, sent,
                   image, constructed>>

EngineNext == EnforceBounds

EngineSpec == EngineInit /\ [][EngineNext]_vars

\* ------------------------------------------------- the background image load
\* imageData of the first render: none, or a data URL
DataUris == {"", "data:image/png;base64,iVBORw0KGgo="}

\* the configurations of a widget with a 1x1 rectangle at the origin
LoadArgs ==
    {a \in PythonArgs : a.rectTop = 0 /\ a.rectLeft = 0 /\ a.rectWidth = 1
                          /\ a.rectHeight = 1}

LoadInit ==
    /\ args \in LoadArgs
    /\ fabricCanvas \in HostCanvasSizes
    /\ surface = "none"
    /\ canvas = "null"
    /\ rectRef = <<>>
    /\ controls = [h \in Handles |-> TRUE]
    /\ listeners = [moving |-> <<>>, scaling |-> <<>>,
                    objectModified |-> 0, mouseDblclick |-> 0]
    /\ lastEvent = "none"
    /\ engineRuns = <<>>
    /\ sent = <<>>
    /\ dataUri \in DataUris
    /\ imageLoad = "none"
    /\ backgroundImage = "none"
    /\ constructed = [Canvas |-> 0, Rect |-> 0]

\* lines 93-96: the promise of FabricImage.fromURL resolves, in a later turn, whatever
\* has happened to the surface since; the callback writes fabricCanvas.backgroundImage
\* and calls fabricCanvas.requestRenderAll()
FromURLResolved ==
    /\ imageLoad = "pending"
    /\ imageLoad' = "resolved"
    /\ backgroundImage' = "img"
    /\ lastEvent' = "image:loaded"
    /\ engineRuns' = <<>>
    /\ sent' = <<>>
    /\ UNCHANGED <<args, fabricCanvas, surface, canvas, rectRef, controls, listeners,
                   dataUri, constructed>>

LoadNext ==
    \/ Mount
    \/ FromURLResolved
    \/ \E newArgs \in LoadArgs : Render(newArgs)
    \/ \E left \in Positions, top \in Positions : Moving(left, top)
    \/ \E scaleX \in GestureScales, scaleY \in GestureScales : Scaling(scaleX, scaleY)
    \/ ObjectModified
    \/ MouseDblclick
    \/ Unmount
    \/ \E name \in Events : StaleEvent(name)

LoadSpec == LoadInit /\ [][LoadNext]_vars

\* ------------------------------------------------------------------ claims
Le(a, b) == ~Lt(b, a)

Add(a, b) == Q(a.n * b.d + b.n * a.d, a.d * b.d)

InBounds(rect, fabricCanvas_) ==
    /\ Le(Num(0), rect.left)
    /\ Le(Num(0), rect.top)
    /\ Le(Add(rect.left, Mul(rect.width, rect.scaleX)), Num(fabricCanvas_.width))
    /\ Le(Add(rect.top, Mul(rect.height, rect.scaleY)), Num(fabricCanvas_.height))

\* C1: in every Ready state (after initialization, and after every move or scale
\* gesture and every configuration update, each of which ends with
\* keepRectInsideCanvas), left >= 0, top >= 0, left + width*scaleX <= canvasWidth
\* and top + height*scaleY <= canvasHeight.
C1_AlwaysInBounds ==
    Ready => InBounds(rectRef[1], fabricCanvas)

\* C2: when lockAspect is true, after keepRectInsideCanvas has run (in the last
\* turn of a Ready widget), scaleX = scaleY.
C2_AspectLockEqualScales ==
    (Ready /\ args.lockAspect /\ engineRuns # <<>>)
        => rectRef[1].scaleX = rectRef[1].scaleY

\* C3: a configuration update of a Ready widget that leaves rectTop, rectLeft,
\* rectWidth and rectHeight as they were leaves the rectangle's left, top, width
\* and height as they were.
C3_UpdatePreservesGeometry ==
    [][(Ready /\ Ready' /\ lastEvent' = "render"
        /\ args'.rectTop = args.rectTop /\ args'.rectLeft = args.rectLeft
        /\ args'.rectWidth = args.rectWidth /\ args'.rectHeight = args.rectHeight)
       => (/\ rectRef'[1].left = rectRef[1].left
           /\ rectRef'[1].top = rectRef[1].top
           /\ rectRef'[1].width = rectRef[1].width
           /\ rectRef'[1].height = rectRef[1].height)]_vars


\* the value {coords} for the rectangle's bounding box
BoundingBoxValue(rect) ==
    [coords |-> [left |-> rect.left, top |-> rect.top,
                 width |-> Mul(rect.width, rect.scaleX),
                 height |-> Mul(rect.height, rect.scaleY)]]

\* C4: in realtime mode, the turn of a Ready widget that handles object:modified
\* sends exactly one value, the bounding box of the rectangle as the engine left it
\* (left, top, width*scaleX, height*scaleY, a fixed point of keepRectInsideCanvas).
C4_RealtimeEmitsOnce ==
    (Ready /\ args.realtimeUpdate /\ lastEvent = "object:modified")
        => /\ Len(sent) = 1
           /\ sent[1] = BoundingBoxValue(rectRef[1])
           /\ keepRectInsideCanvas(rectRef[1], fabricCanvas, args.lockAspect) = rectRef[1]

\* a gesture moved the rectangle away from its configured place and its end was
\* reported once
C4_Witness ==
    /\ Ready /\ args.realtimeUpdate /\ lastEvent = "object:modified"
    /\ args.rectLeft = 0 /\ args.rectWidth = 1
    /\ Len(sent) = 1
    /\ sent[1].coords.left = Num(1) /\ sent[1].coords.width = Num(1)

\* C5: in confirm mode, a turn of a Ready widget that handles anything but a
\* double-click sends nothing, and a turn that handles mouse:dblclick sends exactly
\* one value, the rectangle's current bounding box.
C5_ConfirmEmitsOnDblclickOnly ==
    (Ready /\ ~args.realtimeUpdate)
        => /\ lastEvent # "mouse:dblclick" => sent = <<>>
           /\ lastEvent = "mouse:dblclick"
                => (Len(sent) = 1 /\ sent[1] = BoundingBoxValue(rectRef[1]))

\* a double-click reported a rectangle that a gesture had moved
C5_Witness ==
    /\ Ready /\ ~args.realtimeUpdate /\ lastEvent = "mouse:dblclick"
    /\ args.rectLeft = 0 /\ args.rectWidth = 1
    /\ Len(sent) = 1
    /\ sent[1].coords.left = Num(1) /\ sent[1].coords.width = Num(1)

\* C8: in every Ready state the four corner handles are enabled, the rotation handle
\* is disabled, and the four edge handles are enabled iff lockAspect is false.
C8_HandleVisibility ==
    Ready => /\ \A h \in {"tl", "tr", "bl", "br"} : controls[h]
             /\ ~controls["mtr"]
             /\ \A h \in {"mt", "mb", "ml", "mr"} : controls[h] <=> ~args.lockAspect

\* a configuration update that kept the gesture listeners (lockAspect unchanged,
\* one engine run) and left the edge handles hidden
C8_Witness ==
    /\ Ready /\ lastEvent = "render" /\ args.lockAspect /\ Len(engineRuns) = 1
    /\ ~controls["mt"] /\ controls["tl"]

NoListeners ==
    /\ listeners.moving = <<>> /\ listeners.scaling = <<>>
    /\ listeners.objectModified = 0 /\ listeners.mouseDblclick = 0

\* C9: once the widget is removed, no listener is registered, no event runs the
\* engine or sends a value, and the widget stays Disposed.
C9_Teardown ==
    /\ [](Disposed => (NoListeners /\ engineRuns = <<>> /\ sent = <<>>))
    /\ [][Disposed => Disposed']_vars

\* a moving event was dispatched after the removal of a widget that had been Ready
C9_Witness ==
    Disposed /\ canvas = "set" /\ lastEvent = "moving" /\ engineRuns = <<>>


NonDegenerate(rect) == Gt(rect.width, Num(0)) /\ Gt(rect.height, Num(0))

\* C6: once keepRectInsideCanvas has run, running it again with no mutation in
\* between leaves left, top, scaleX and scaleY (the whole rectangle) as they are.
C6_Idempotent ==
    [][engineRuns # <<>> => rectRef' = rectRef]_vars

\* the engine has run and moved the rectangle to a place no input has (left = 1/2:
\* a 1-wide rectangle at scale 1/2 pushed back onto a 1-wide canvas)
C6_Witness ==
    /\ lastEvent = "enforceBounds"
    /\ rectRef[1].left = Q(1, 2) /\ rectRef[1].scaleX = Q(1, 2)
    /\ rectRef[1].width = Num(1) /\ fabricCanvas.width = 1

\* C7 as stated: on each axis and for both values of lockAspect, a scale factor within
\* its bound (canvasWidth/baseWidth, canvasHeight/baseHeight; the smaller of the two
\* when locked) is left unchanged by keepRectInsideCanvas.
C7_WithinBoundUnchangedPerAxis ==
    [][(lastEvent' = "enforceBounds" /\ NonDegenerate(rectRef[1]))
       => LET r == rectRef[1]
              mx == maxScaleX(r, fabricCanvas)
              my == maxScaleY(r, fabricCanvas)
              boundX == IF args.lockAspect THEN MathMin(mx, my) ELSE mx
              boundY == IF args.lockAspect THEN MathMin(mx, my) ELSE my
          IN  /\ Le(r.scaleX, boundX) => rectRef'[1].scaleX = r.scaleX
              /\ Le(r.scaleY, boundY) => rectRef'[1].scaleY = r.scaleY]_vars

\* C7 amended: when unlocked, a scale factor within its own axis's bound is left
\* unchanged; when locked, the two scale factors are left unchanged if both are
\* within the smaller of the two bounds.
C7_WithinBoundUnchanged ==
    [][(lastEvent' = "enforceBounds" /\ NonDegenerate(rectRef[1]))
       => LET r == rectRef[1]
              mx == maxScaleX(r, fabricCanvas)
              my == maxScaleY(r, fabricCanvas)
              mu == MathMin(mx, my)
          IN  /\ (~args.lockAspect /\ Le(r.scaleX, mx)) => rectRef'[1].scaleX = r.scaleX
              /\ (~args.lockAspect /\ Le(r.scaleY, my)) => rectRef'[1].scaleY = r.scaleY
              /\ (args.lockAspect /\ Le(r.scaleX, mu) /\ Le(r.scaleY, mu))
                    => (rectRef'[1].scaleX = r.scaleX /\ rectRef'[1].scaleY = r.scaleY)]_vars

\* the engine has run unlocked on a 3-wide, 1-high canvas with base 1x1: scaleX = 2
\* is within its bound 3 and kept, while scaleY was cut to 1
C7_Witness ==
    /\ lastEvent = "enforceBounds" /\ ~args.lockAspect
    /\ fabricCanvas = [width |-> 3, height |-> 1]
    /\ rectRef[1].width = Num(1) /\ rectRef[1].height = Num(1)
    /\ rectRef[1].scaleX = Num(2) /\ rectRef[1].scaleY = Num(1)

\* C10: for base width and height > 0, unlocked, scaleX' = min(scaleX, maxScaleX) and
\* scaleY' = min(scaleY, maxScaleY); locked with scaleX or scaleY above
\* min(maxScaleX, maxScaleY), both scaleX' and scaleY' equal min(maxScaleX, maxScaleY).
C10_ScaleClampResult ==
    [][(lastEvent' = "enforceBounds" /\ NonDegenerate(rectRef[1]))
       => LET r == rectRef[1]
              mx == Div(Num(fabricCanvas.width), r.width)
              my == Div(Num(fabricCanvas.height), r.height)
              mu == IF Lt(mx, my) THEN mx ELSE my
          IN  /\ ~args.lockAspect
                    => /\ rectRef'[1].scaleX = (IF Lt(r.scaleX, mx) THEN r.scaleX ELSE mx)
                       /\ rectRef'[1].scaleY = (IF Lt(r.scaleY, my) THEN r.scaleY ELSE my)
              /\ (args.lockAspect /\ (Gt(r.scaleX, mu) \/ Gt(r.scaleY, mu)))
                    => (rectRef'[1].scaleX = mu /\ rectRef'[1].scaleY = mu)]_vars

\* the engine has run unlocked on a 3x2 canvas with base 2x2 and left the scale
\* factors at the bounds (3/2, 1); 3/2 is no input scale, so scaleX was clamped
C10_Witness ==
    /\ lastEvent = "enforceBounds" /\ ~args.lockAspect
    /\ fabricCanvas = [width |-> 3, height |-> 2]
    /\ rectRef[1].width = Num(2) /\ rectRef[1].height = Num(2)
    /\ rectRef[1].scaleX = Q(3, 2) /\ rectRef[1].scaleY = Num(1)

\* the rectangle of the spec's scenario 4: at (380, 280), 100x100 at scale 1
Scenario4Rect ==
    [left |-> Num(380), top |-> Num(280), width |-> Num(100), height |-> Num(100),
     scaleX |-> Num(1), scaleY |-> Num(1)]

Scenario4Canvas == [width |-> 400, height |-> 300]

\* C11: after the scale step keepRectInsideCanvas sets left' to left clamped into
\* [0, max(canvasWidth - scaledWidth, 0)] and top' to top clamped into
\* [0, max(canvasHeight - scaledHeight, 0)] (below the interval: its lower end, above:
\* its upper end, inside: unchanged); the rectangle at (380, 280) of scaled size
\* 100x100 on a 400x300 canvas ends at (300, 200).
C11_PositionClampResult ==
    [][lastEvent' = "enforceBounds"
       => LET r == rectRef[1]
              out == rectRef'[1]
              freeW == Sub(Num(fabricCanvas.width), Mul(out.width, out.scaleX))
              freeH == Sub(Num(fabricCanvas.height), Mul(out.height, out.scaleY))
              maxLeft == IF Lt(freeW, Num(0)) THEN Num(0) ELSE freeW
              maxTop == IF Lt(freeH, Num(0)) THEN Num(0) ELSE freeH
              Into(v, hi) == IF Lt(v, Num(0)) THEN Num(0) ELSE IF Lt(hi, v) THEN hi ELSE v
          IN  /\ out.left = Into(r.left, maxLeft)
              /\ out.top = Into(r.top, maxTop)
              /\ (Le(Num(0), r.left) /\ Le(r.left, maxLeft)) => out.left = r.left
              /\ (Le(Num(0), r.top) /\ Le(r.top, maxTop)) => out.top = r.top
              /\ \A lock \in BOOLEAN :
                    LET s4 == keepRectInsideCanvas(Scenario4Rect, Scenario4Canvas, lock)
                    IN  s4.left = Num(300) /\ s4.top = Num(200)]_vars

\* the engine has run on a 1-high canvas and pushed a 1-high rectangle at scale 1/2
\* up to top = 1/2 (no input position), and pulled left = -1 ... 0 onto the canvas
C11_Witness ==
    /\ lastEvent = "enforceBounds"
    /\ fabricCanvas = [width |-> 2, height |-> 1]
    /\ rectRef[1].height = Num(1) /\ rectRef[1].scaleY = Q(1, 2)
    /\ rectRef[1].top = Q(1, 2) /\ rectRef[1].left = Num(0)

\* C12: in every Ready state exactly one result-emitting listener is registered: on
\* object:modified if the current realtimeUpdate is true, on mouse:dblclick if it is
\* false, never on both (a mode switch removes the previous mode's listener before it
\* registers the new one).
C12_SingleEmissionListener ==
    Ready => /\ listeners.objectModified + listeners.mouseDblclick = 1
             /\ listeners.objectModified = 1 <=> args.realtimeUpdate
             /\ listeners.mouseDblclick = 1 <=> ~args.realtimeUpdate

\* a commit after the one that first bound the listeners (the emission effect's cleanup
\* and body have both run; one engine run: the gesture listeners were kept) has left
\* one listener, on object:modified
C12_Witness ==
    /\ Ready /\ lastEvent = "render" /\ Len(engineRuns) = 1
    /\ args.realtimeUpdate
    /\ listeners.objectModified = 1 /\ listeners.mouseDblclick = 0

\* C13: in every Ready state exactly one moving listener and one scaling listener are
\* bound to the rectangle, each capturing the current lockAspect, so the turn of every
\* moving or scaling event has run keepRectInsideCanvas exactly once, with the current
\* lockAspect (not twice, not zero times, not with an earlier value).
C13_GestureListenerRebinding ==
    Ready => /\ listeners.moving = <<args.lockAspect>>
             /\ listeners.scaling = <<args.lockAspect>>
             /\ lastEvent \in {"moving", "scaling"} => engineRuns = <<args.lockAspect>>

\* a moving event ran the engine once, locked, on a rectangle whose scale factors
\* (2, 1/2) only the unlocked engine produces: lockAspect has changed since and the
\* listeners were rebound
C13_Witness ==
    /\ Ready /\ args.lockAspect /\ lastEvent = "moving"
    /\ engineRuns = <<TRUE>>
    /\ rectRef[1].scaleX = Num(2) /\ rectRef[1].scaleY = Q(1, 2)

\* C14: every mutation of the rectangle is followed by keepRectInsideCanvas before the
\* next observation, so every value sent (in realtime or in confirm mode) describes a
\* rectangle with left >= 0, top >= 0, left + width <= canvasWidth and
\* top + height <= canvasHeight; and the widget is always in one of the states
\* Uninitialized (no surface, or a surface not yet committed to the canvas state),
\* Ready or Disposed.
C14_NoInvalidStateObservable ==
    /\ \A i \in 1..Len(sent) :
          LET c == sent[i].coords
          IN  /\ Le(Num(0), c.left)
              /\ Le(Num(0), c.top)
              /\ Le(Add(c.left, c.width), Num(fabricCanvas.width))
              /\ Le(Add(c.top, c.height), Num(fabricCanvas.height))
    /\ \/ surface = "none" /\ canvas = "null" /\ rectRef = <<>>
       \/ surface = "live" /\ canvas = "null" /\ Len(rectRef) = 1
       \/ surface = "live" /\ canvas = "set" /\ Len(rectRef) = 1
       \/ surface = "disposed" /\ Len(rectRef) = 1

\* C15: when the widget is torn down while the background-image load is in flight,
\* the load's completion callback does not mutate the disposed surface (it does not
\* set backgroundImage on it).
C15_StaleCallbackGuard ==
    [][Disposed => backgroundImage' = backgroundImage]_vars

\* C16: the drawing surface and the crop rectangle are each created exactly once:
\* none before the mount, one of each from the mount on; a Ready widget never returns
\* to Uninitialized, and a configuration update keeps the surface, keeps one rectangle
\* and constructs neither a second rectangle nor a second surface.
C16_SingleInitialization ==
    /\ [](surface = "none" => constructed = [Canvas |-> 0, Rect |-> 0])
    /\ [](surface # "none" => constructed = [Canvas |-> 1, Rect |-> 1])
    /\ [][Ready => ~Uninitialized']_vars
    /\ [][lastEvent' = "render"
            => (constructed' = constructed /\ surface' = surface
                /\ Len(rectRef) = 1 /\ Len(rectRef') = 1)]_vars

\* a configuration update of a Ready widget (lockAspect unchanged: one engine run) was
\* applied to the rectangle that a resize gesture had scaled to 2, with one surface
\* and one rectangle constructed
C16_Witness ==
    /\ Ready /\ lastEvent = "render" /\ Len(engineRuns) = 1
    /\ rectRef[1].scaleX = Num(2)
    /\ constructed = [Canvas |-> 1, Rect |-> 1]

\* C17: when the rectangle's base width or base height is zero, keepRectInsideCanvas
\* leaves scaleX and scaleY unchanged, whatever their values and whatever lockAspect
\* is, still clamps left into [0, max(canvasWidth - scaledWidth, 0)] and top into
\* [0, max(canvasHeight - scaledHeight, 0)], and completes with a rectangle whose
\* fields are all finite numbers (nothing was divided by zero).
C17_DegenerateRectangle ==
    [][(lastEvent' = "enforceBounds" /\ ~NonDegenerate(rectRef[1]))
       => LET r == rectRef[1]
              out == rectRef'[1]
              freeW == Sub(Num(fabricCanvas.width), Mul(r.width, r.scaleX))
              freeH == Sub(Num(fabricCanvas.height), Mul(r.height, r.scaleY))
              maxLeft == IF Lt(freeW, Num(0)) THEN Num(0) ELSE freeW
              maxTop == IF Lt(freeH, Num(0)) THEN Num(0) ELSE freeH
          IN  /\ out.scaleX = r.scaleX /\ out.scaleY = r.scaleY
              /\ out.width = r.width /\ out.height = r.height
              /\ Le(Num(0), out.left) /\ Le(out.left, maxLeft)
              /\ Le(Num(0), out.top) /\ Le(out.top, maxTop)
              /\ (Le(Num(0), r.left) /\ Le(r.left, maxLeft)) => out.left = r.left
              /\ (Le(Num(0), r.top) /\ Le(r.top, maxTop)) => out.top = r.top
              /\ \A f \in DOMAIN out : out[f].d > 0]_vars

\* the engine has run, locked, on a 2-wide, 0-high rectangle at scale (2, 2) on a 1x1
\* canvas: the scale factors are still 2 (the bound for a 2-wide base would be 1/2)
\* and the rectangle, wider than the canvas, sits at left = 0
C17_Witness ==
    /\ lastEvent = "enforceBounds" /\ args.lockAspect
    /\ fabricCanvas = [width |-> 1, height |-> 1]
    /\ rectRef[1].width = Num(2) /\ rectRef[1].height = Num(0)
    /\ rectRef[1].scaleX = Num(2) /\ rectRef[1].scaleY = Num(2)
    /\ rectRef[1].left = Num(0) /\ rectRef[1].top = Num(1)

\* C18: when lockAspect is true and scaleX = scaleY before keepRectInsideCanvas runs,
\* scaleX = scaleY after it runs, for every base size and canvas size (so equal scale
\* factors stay equal over any number of consecutive engine calls).
C18_UniformScalePreserved ==
    [][(lastEvent' = "enforceBounds" /\ args.lockAspect
        /\ rectRef[1].scaleX = rectRef[1].scaleY)
       => rectRef'[1].scaleX = rectRef'[1].scaleY]_vars

\* the engine has run locked on a 3x3 canvas with base 2x2 and left both scale factors
\* at 3/2, the uniform bound (no input scale)
C18_Witness ==
    /\ lastEvent = "enforceBounds" /\ args.lockAspect
    /\ fabricCanvas = [width |-> 3, height |-> 3]
    /\ rectRef[1].width = Num(2) /\ rectRef[1].height = Num(2)
    /\ rectRef[1].scaleX = Q(3, 2) /\ rectRef[1].scaleY = Q(3, 2)

\* C19 as stated: a configuration update writes width and height from the
\* configuration and leaves scaleX and scaleY at their previous values, except where
\* keepRectInsideCanvas lowers one to the bound implied by the new base size
\* (canvasWidth/width, canvasHeight/height; the smaller of the two when locked).
C19_UpdateKeepsOrLowersScale ==
    [][lastEvent' = "render"
       => LET r == rectRef[1]
              out == rectRef'[1]
              w == Num(args'.rectWidth)
              h == Num(args'.rectHeight)
              mx == Div(Num(fabricCanvas.width), w)
              my == Div(Num(fabricCanvas.height), h)
              mu == IF Lt(mx, my) THEN mx ELSE my
              boundX == IF args'.lockAspect THEN mu ELSE mx
              boundY == IF args'.lockAspect THEN mu ELSE my
          IN  /\ out.width = w /\ out.height = h
              /\ \/ out.scaleX = r.scaleX
                 \/ Lt(out.scaleX, r.scaleX) /\ out.scaleX = boundX
              /\ \/ out.scaleY = r.scaleY
                 \/ Lt(out.scaleY, r.scaleY) /\ out.scaleY = boundY]_vars

\* C19 amended: a configuration update writes width and height from the configuration
\* and leaves scaleX and scaleY at their previous values, except where
\* keepRectInsideCanvas changes them for the new base size: with a base dimension 0,
\* never; unlocked, a factor above its axis's bound is lowered to it; locked, when
\* either factor is above min(maxScaleX, maxScaleY) both are set to it (the smaller
\* factor can be raised by that), and otherwise both are kept.
C19_UpdateKeepsScale ==
    [][lastEvent' = "render"
       => LET r == rectRef[1]
              out == rectRef'[1]
              w == Num(args'.rectWidth)
              h == Num(args'.rectHeight)
              mx == Div(Num(fabricCanvas.width), w)
              my == Div(Num(fabricCanvas.height), h)
              mu == IF Lt(mx, my) THEN mx ELSE my
          IN  /\ out.width = w /\ out.height = h
              /\ (args'.rectWidth = 0 \/ args'.rectHeight = 0)
                    => (out.scaleX = r.scaleX /\ out.scaleY = r.scaleY)
              /\ (args'.rectWidth > 0 /\ args'.rectHeight > 0 /\ ~args'.lockAspect)
                    => /\ out.scaleX = (IF Lt(mx, r.scaleX) THEN mx ELSE r.scaleX)
                       /\ out.scaleY = (IF Lt(my, r.scaleY) THEN my ELSE r.scaleY)
              /\ (args'.rectWidth > 0 /\ args'.rectHeight > 0 /\ args'.lockAspect)
                    => IF Lt(mu, r.scaleX) \/ Lt(mu, r.scaleY)
                       THEN out.scaleX = mu /\ out.scaleY = mu
                       ELSE out.scaleX = r.scaleX /\ out.scaleY = r.scaleY]_vars

\* an unlocked configuration update of a Ready widget on a 2x1 canvas with base 1x2:
\* scaleX = 2, set by a resize gesture, was kept and scaleY is at its bound 1/2
C19_Witness ==
    /\ Ready /\ lastEvent = "render" /\ ~args.lockAspect /\ Len(engineRuns) = 1
    /\ fabricCanvas = [width |-> 2, height |-> 1]
    /\ args.rectWidth = 1 /\ args.rectHeight = 2
    /\ rectRef[1].scaleX = Num(2) /\ rectRef[1].scaleY = Q(1, 2)

====
